---- MODULE Spec2Model ----
(***************************************************************************)
(* Qivo voice server: the WebSocket audio pipeline (VoiceWebSocketServer,  *)
(* FastVoiceProcessor), the debounced chunk aggregator (UltraFastProcessor)*)
(* , the in-flight request map of VoiceProcessor and the in-memory store   *)
(* (MemStorage).                                                           *)
(*                                                                         *)
(* Node runs one macrotask at a time: an action is one macrotask together  *)
(* with the microtasks it queues.  A provider call (Whisper, chat          *)
(* completion) resolves in a later macrotask, so it separates two actions. *)
(* A MemStorage call takes effect when it is called and its await resumes  *)
(* in a microtask, so it stays inside the action that issues it.           *)
(*                                                                         *)
(* Spec      audio requests through handleAudioData, the fast path and the *)
(*           background runs                                               *)
(* SpecAgg   the chunk aggregator: ingests, timer callbacks, flushes       *)
(* SpecDedup VoiceProcessor.processVoiceMessage and its processingQueue    *)
(* SpecLife  connections: inbound messages, sessions, close, error, sweep  *)
(* SpecTeardown  one audio request on a connection that closes or fails    *)
(* SpecStream    StreamingVoiceProcessor: ingests, timers, flushes         *)
(* SpecStreamLive  the same with clearClient, under fairness               *)
(* SpecTokens    generateStreamingResponse and what is stored of it        *)
(* SpecScenario  small fragments in one debounce window                    *)
(* SpecLive  the continuations under fairness: provider calls return       *)
(* SpecOrder the session handlers of a connection, split at their storage  *)
(*           awaits: the handler of the next event runs while one waits    *)
(***************************************************************************)
EXTENDS Integers, Sequences, FiniteSets, TLC

\* ------------------------------------------------------------------ bounds
MaxClients == 1
MaxRequests == 2
MaxSessions == 1
MaxFrags == 3
MaxSubmits == 3
MaxTime == 1
ArrivalGapMs == 10
MaxLifeRequests == 1
MaxLifeSessions == 2
MaxLifeMessages == 4
MaxClockMs == 600000
MaxChunks == 3
MaxStreamFrags == 3
MaxScenarioMessages == 4
MaxScenarioRequests == 3
MaxLiveSubmits == 2
MaxOrderMessages == 4
MaxOrderHandlers == 5

\* -------------------------------------------------------- program constants
MinUltraFastBytes == 512
MinWhisperBytes == 1024
ControlMaxBytes == 100
StaleThresholdMs == 300000
HighWaterBytes == 50000
MinStreamBytes == 10000

ClientIds == 1..MaxClients
\* payload sizes of audio messages: one below the aggregator's floor, one
\* above Whisper's minimum (two of the small ones lie between the two)
AudioSizes == {300, 1200}
SessionKeys == {1, 2}
\* inbound payloads: their byte length and what JSON.parse and the control
\* handlers make of them ("binary": not JSON; "noData": a control message
\* without a data field; "otherType": a message of an unknown type)
PayloadKinds == {"binary", "start_session", "end_session", "ping", "noData", "otherType"}
Payloads == [size : {50}, kind : PayloadKinds]
                \cup {[size |-> 1200, kind |-> "binary"],
                      [size |-> 1200, kind |-> "start_session"]}
\* how far the clock moves in one step
TimeSteps == {StaleThresholdMs}

VARIABLES
    clients,          \* VoiceWebSocketServer.clients: the registered client ids
    connectionCount,  \* VoiceWebSocketServer.connectionCount
    ws,               \* ws.readyState of each client's socket
    sessionId,        \* ClientConnection.sessionId (0: undefined)
    storage,          \* MemStorage: voiceSessions, conversations, emotionAnalyses, currentId
    req,              \* one record per handleAudioData call
    bg,               \* one record per processBackgroundAnalysis call
    events,           \* per handleAudioData call, the events sent for it, in call order
    control,          \* per client, the other events sent to it, in call order
    fragSize,         \* byte length of every buffered audio fragment
    audioChunks,      \* UltraFastProcessor.audioChunks
    timer,            \* UltraFastProcessor.processingTimeout: the pending timer
    burst,            \* fragments ingested since the client's timer last fired
    flushes,          \* one record per processAccumulatedAudioUltraFast call
    processingQueue,  \* VoiceProcessor.processingQueue: messageId -> execution
    execs,            \* one record per _processVoiceInternal call
    callers,          \* one record per processVoiceMessage call
    now,              \* Date.now()
    lastActivity,     \* ClientConnection.lastActivity
    routed,           \* the inbound messages so far: their number, the last one's
                      \* payload and the handlers it was given to
    sessionsOf,       \* per client, the ids of the sessions created through it
    streamSize,       \* byte length of every chunk given to StreamingVoiceProcessor
    streamChunks,     \* StreamingVoiceProcessor.audioChunks
    streamTimeout,    \* per client, the timers of StreamingVoiceProcessor that are
                      \* pending and the one processingTimeout holds (0: no entry)
    streamFlushes,    \* one record per processAccumulatedAudio call
    gen,              \* one generateStreamingResponse call and what came of it
    streamCalls,      \* one record per processAudioChunk call: the promise it returned
    handlers          \* one record per startVoiceSession / endVoiceSession call that
                      \* runs with a storage call of any latency

wsVars == <<clients, connectionCount, ws, sessionId, req, bg, events, control>>
aggVars == <<fragSize, audioChunks, timer, burst, flushes>>
dedupVars == <<processingQueue, execs, callers, now>>
lifeVars == <<lastActivity, routed, sessionsOf>>
streamVars == <<streamSize, streamChunks, streamTimeout, streamFlushes, gen, streamCalls>>
vars == <<clients, connectionCount, ws, sessionId, storage, req, bg, events, control,
          fragSize, audioChunks, timer, burst, flushes,
          processingQueue, execs, callers, now,
          lastActivity, routed, sessionsOf,
          streamSize, streamChunks, streamTimeout, streamFlushes, gen, streamCalls,
          handlers>>

\* ----------------------------------------------------------------- helpers
RECURSIVE SumSizes(_, _)
SumSizes(sizes, s) ==
    IF s = <<>> THEN 0 ELSE sizes[Head(s)] + SumSizes(sizes, Tail(s))

Range(s) == {s[i] : i \in DOMAIN s}

\* ------------------------------------------------------------- MemStorage
createVoiceSession(st) ==
    [st EXCEPT !.currentId = @ + 1,
               !.voiceSessions = Append(@, [id |-> st.currentId,
                                            endTime |-> -1,
                                            totalMessages |-> 0,
                                            isActive |-> TRUE])]

getVoiceSession(st, sid) == {i \in DOMAIN st.voiceSessions : st.voiceSessions[i].id = sid}

\* an update that writes back the record as it was created
updateVoiceSessionStale(st, sid, endTime) ==
    [st EXCEPT !.voiceSessions =
        [i \in DOMAIN @ |-> IF @[i].id = sid
                            THEN [@[i] EXCEPT !.endTime = endTime, !.isActive = FALSE,
                                              !.totalMessages = 0]
                            ELSE @[i]]]

\* updateVoiceSession(id, {endTime, duration, isActive: false})
updateVoiceSession(st, sid, endTime) ==
    [st EXCEPT !.voiceSessions =
        [i \in DOMAIN @ |-> IF @[i].id = sid
                            THEN [@[i] EXCEPT !.endTime = endTime, !.isActive = FALSE]
                            ELSE @[i]]]

createConversation(st, sid, type, r) ==
    [st EXCEPT !.currentId = @ + 1,
               !.conversations = Append(@, [id |-> st.currentId,
                                            sessionId |-> sid,
                                            type |-> type,
                                            req |-> r]),
               !.voiceSessions =
                   [i \in DOMAIN @ |-> IF @[i].id = sid
                                       THEN [@[i] EXCEPT !.totalMessages = @ + 1]
                                       ELSE @[i]]]

getConversationsBySession(st, sid) ==
    SelectSeq(st.conversations, LAMBDA c : c.sessionId = sid)

createEmotionAnalysis(st, convId, sentiment, r, run) ==
    [st EXCEPT !.currentId = @ + 1,
               !.emotionAnalyses = Append(@, [id |-> st.currentId,
                                              conversationId |-> convId,
                                              sentiment |-> sentiment,
                                              req |-> r,
                                              run |-> run])]

\* ---------------------------------------------------------- event dispatch
\* ws.send happens only when ws.readyState === WebSocket.OPEN
wsSendAlways(readyState) == TRUE

wsSend(readyState) == readyState = "open"

\* sendMessage / sendError on behalf of request r: the call is logged with
\* whether it reached ws.send
sendMessage(log, r, readyState, action, info) ==
    [log EXCEPT ![r] = Append(@, [action |-> action, info |-> info,
                                  delivered |-> wsSend(readyState)])]

\* sendMessage for an event that belongs to no audio request
sendControl(log, c, readyState, action) ==
    [log EXCEPT ![c] = Append(@, [action |-> action,
                                  delivered |-> wsSend(readyState)])]

\* ------------------------------------------------------------------- Init
Init ==
    /\ clients = {}
    /\ connectionCount = 0
    /\ ws = [c \in ClientIds |-> "none"]
    /\ sessionId = [c \in ClientIds |-> 0]
    /\ storage = [voiceSessions |-> <<>>, conversations |-> <<>>,
                  emotionAnalyses |-> <<>>, currentId |-> 1]
    /\ req = <<>>
    /\ bg = <<>>
    /\ events = <<>>
    /\ control = [c \in ClientIds |-> <<>>]
    /\ fragSize = <<>>
    /\ audioChunks = [c \in ClientIds |-> <<>>]
    /\ timer = [c \in ClientIds |-> [armed |-> FALSE, sid |-> 0]]
    /\ burst = [c \in ClientIds |-> <<>>]
    /\ flushes = <<>>
    /\ processingQueue = {}
    /\ execs = <<>>
    /\ callers = <<>>
    /\ now = 0
    /\ lastActivity = [c \in ClientIds |-> 0]
    /\ routed = [count |-> 0, client |-> 0, payload |-> [size |-> 0, kind |-> "none"],
                 to |-> <<>>]
    /\ sessionsOf = [c \in ClientIds |-> {}]
    /\ streamSize = <<>>
    /\ streamCalls = <<>>
    /\ handlers = <<>>
    /\ streamChunks = [c \in ClientIds |-> <<>>]
    /\ streamTimeout = [c \in ClientIds |-> [live |-> {}, handle |-> 0]]
    /\ streamFlushes = <<>>
    /\ gen = [pc |-> "idle", emitted |-> <<>>, fullContent |-> <<>>, tokens |-> <<>>,
              returned |-> <<>>, persisted |-> <<>>]

\* ------------------------------------------------------ UltraFastProcessor
\* processAudioChunkUltraFast: push the chunk, clear the pending timeout, set
\* a new one that captures the session id
ingestChunksFront(chunks, c, f) == [chunks EXCEPT ![c] = <<f>> \o @]

ingestChunks(chunks, c, f) == [chunks EXCEPT ![c] = Append(@, f)]

ingestTimer(t, c, sid) == [t EXCEPT ![c] = [armed |-> TRUE, sid |-> sid]]

processAudioChunkUltraFast(c, size, sid) ==
    /\ Len(fragSize) < MaxFrags
    /\ fragSize' = Append(fragSize, size)
    /\ audioChunks' = ingestChunks(audioChunks, c, Len(fragSize) + 1)
    /\ timer' = ingestTimer(timer, c, sid)
    /\ burst' = [burst EXCEPT ![c] = Append(@, Len(fragSize) + 1)]
    /\ UNCHANGED <<handlers, streamVars, flushes, storage, wsVars, dedupVars, lifeVars>>

FlushStageNoFloor(sizes, chunks) ==
    IF chunks = <<>> THEN "empty"
    ELSE IF SumSizes(sizes, chunks) < MinWhisperBytes THEN "rejected"
    ELSE "transcribing"

\* the timer's callback: processAccumulatedAudioUltraFast up to its first
\* suspension (the Whisper call)
FlushStage(sizes, chunks) ==
    IF chunks = <<>> THEN "empty"
    ELSE IF SumSizes(sizes, chunks) < MinUltraFastBytes THEN "small"
    ELSE IF SumSizes(sizes, chunks) < MinWhisperBytes THEN "rejected"
    ELSE "transcribing"

TimerFire(c) ==
    /\ timer[c].armed
    /\ timer' = [timer EXCEPT ![c].armed = FALSE]
    /\ flushes' = Append(flushes, [client |-> c,
                                   sid |-> timer[c].sid,
                                   burst |-> burst[c],
                                   segment |-> audioChunks[c],
                                   pc |-> FlushStage(fragSize, audioChunks[c])])
    /\ burst' = [burst EXCEPT ![c] = <<>>]
    /\ UNCHANGED <<handlers, streamVars, fragSize, audioChunks, storage, wsVars, dedupVars, lifeVars>>

\* what line 94 leaves in the client's buffer once the record is stored
clearedChunks(chunks, c, segment) == [chunks EXCEPT ![c] = <<>>]

\* the Whisper call of a flush returns: callback, createConversation, clear
FlushDone(i, outcome) ==
    /\ i \in DOMAIN flushes
    /\ flushes[i].pc = "transcribing"
    /\ LET fl == flushes[i] IN
       CASE outcome = "whisperFail" ->
              /\ flushes' = [flushes EXCEPT ![i].pc = "failed"]
              /\ UNCHANGED <<control, storage, audioChunks>>
         [] outcome = "storeFail" ->
              /\ flushes' = [flushes EXCEPT ![i].pc = "failed"]
              /\ control' = sendControl(control, fl.client, ws[fl.client],
                                         "ultra_fast_transcription")
              /\ UNCHANGED <<storage, audioChunks>>
         [] OTHER ->
              /\ flushes' = [flushes EXCEPT ![i].pc = "done"]
              /\ control' = sendControl(control, fl.client, ws[fl.client],
                                         "ultra_fast_transcription")
              /\ storage' = createConversation(storage, fl.sid, "user", 0)
              /\ audioChunks' = clearedChunks(audioChunks, fl.client, fl.segment)
    /\ UNCHANGED <<handlers, streamVars, clients, connectionCount, ws, sessionId, req, bg, events,
                   fragSize, timer, burst, dedupVars, lifeVars>>

\* ---------------------------------------------------- VoiceWebSocketServer
handleConnection(c) ==
    /\ ws[c] = "none"
    /\ ws' = [ws EXCEPT ![c] = "open"]
    /\ clients' = clients \cup {c}
    /\ connectionCount' = connectionCount + 1
    /\ control' = sendControl(control, c, "open", "connected")
    /\ lastActivity' = [lastActivity EXCEPT ![c] = now]
    /\ UNCHANGED <<handlers, streamVars, sessionId, storage, req, bg, events, aggVars, dedupVars,
                   routed, sessionsOf>>

startVoiceSession(c) ==
    /\ ws[c] = "open"
    /\ c \in clients
    /\ storage' = createVoiceSession(storage)
    /\ sessionId' = [sessionId EXCEPT ![c] = storage.currentId]
    /\ control' = sendControl(control, c, ws[c], "session_started")
    /\ sessionsOf' = [sessionsOf EXCEPT ![c] = @ \cup {storage.currentId}]
    /\ UNCHANGED <<handlers, streamVars, clients, connectionCount, ws, req, bg, events, aggVars, dedupVars>>

fastPathFailedSilently(log, r, readyState) == log

\* the events a failed fast path sends (the catch of handleAudioData)
fastPathFailed(log, r, readyState) ==
    sendMessage(log, r, readyState, "error", "Audio processing failed")

\* handleMessage -> handleAudioData, up to the Whisper call of
\* processVoiceForRealtime
handleAudioData(c, size) ==
    /\ ws[c] = "open"
    /\ c \in clients
    /\ LET r == Len(req) + 1
           f == Len(fragSize) + 1
           log == Append(events, <<>>)
       IN
       IF sessionId[c] = 0
       THEN /\ req' = Append(req, [client |-> c, size |-> size, sid |-> 0,
                                   frag |-> 0, pc |-> "nosession", fail |-> "none"])
            /\ events' = sendMessage(log, r, ws[c], "error", "No active session")
            /\ UNCHANGED aggVars
       ELSE /\ fragSize' = Append(fragSize, size)
            /\ audioChunks' = ingestChunks(audioChunks, c, f)
            /\ timer' = ingestTimer(timer, c, sessionId[c])
            /\ burst' = [burst EXCEPT ![c] = Append(@, f)]
            /\ UNCHANGED flushes
            /\ IF size < MinWhisperBytes
               THEN /\ req' = Append(req, [client |-> c, size |-> size,
                                           sid |-> sessionId[c], frag |-> f,
                                           pc |-> "failed", fail |-> "small"])
                    /\ events' = fastPathFailed(
                                    sendMessage(log, r, ws[c], "processing", "response"),
                                    r, ws[c])
               ELSE /\ req' = Append(req, [client |-> c, size |-> size,
                                           sid |-> sessionId[c], frag |-> f,
                                           pc |-> "transcribing", fail |-> "none"])
                    /\ events' = sendMessage(log, r, ws[c], "processing", "response")
    /\ UNCHANGED <<handlers, streamVars, clients, connectionCount, ws, sessionId, storage, bg, control,
                   dedupVars, sessionsOf>>

endedSessionsNever(st, sids, t) == st

\* endVoiceSession as far as the session goes: getVoiceSession, and if it is
\* found updateVoiceSession
endedSessions(st, sids, t) ==
    [st EXCEPT !.voiceSessions =
        [i \in DOMAIN @ |-> IF @[i].id \in sids /\ getVoiceSession(st, @[i].id) # {}
                            THEN updateVoiceSession(st, @[i].id, t).voiceSessions[i]
                            ELSE @[i]]]

\* the end_session control action
endVoiceSession(c) ==
    /\ c \in clients
    /\ IF sessionId[c] = 0
       THEN UNCHANGED <<storage, control, sessionId>>
       ELSE /\ storage' = endedSessions(storage, {sessionId[c]}, now)
            /\ control' = sendControl(control, c, ws[c], "session_ended")
            /\ sessionId' = [sessionId EXCEPT ![c] = 0]
    /\ UNCHANGED <<handlers, streamVars, clients, connectionCount, ws, req, bg, events, aggVars, dedupVars,
                   sessionsOf>>

\* the ping control action
pong(c) ==
    /\ c \in clients
    /\ control' = sendControl(control, c, ws[c], "pong")
    /\ UNCHANGED <<handlers, streamVars, clients, connectionCount, ws, sessionId, storage, req, bg, events,
                   aggVars, dedupVars, sessionsOf>>

\* the handlers handleMessage gives a payload to, in call order: the audio
\* path for a payload over 100 bytes or one JSON.parse rejects; the control
\* path for one that parses, and then the audio path as well when the control
\* path throws inside the try (data.action of a missing data field)
controlThrows(kind) == kind = "noData"

Route(p) ==
    IF p.size > ControlMaxBytes THEN <<"audio">>
    ELSE IF p.kind = "binary" THEN <<"audio">>
    ELSE IF controlThrows(p.kind) THEN <<"control", "audio">>
    ELSE <<"control">>

\* ws.on('message'): refresh lastActivity, then handleMessage
handleMessage(c, p) ==
    /\ ws[c] = "open"
    /\ lastActivity' = [lastActivity EXCEPT ![c] = now]
    /\ IF c \notin clients
       THEN /\ routed' = [count |-> routed.count + 1, client |-> c, payload |-> p,
                           to |-> <<>>]
            /\ UNCHANGED <<handlers, wsVars, storage, aggVars, dedupVars, sessionsOf, streamVars>>
       ELSE /\ routed' = [count |-> routed.count + 1, client |-> c, payload |-> p,
                           to |-> Route(p)]
            /\ CASE Route(p)[Len(Route(p))] = "audio" -> handleAudioData(c, p.size)
                 [] p.kind = "start_session" -> startVoiceSession(c)
                 [] p.kind = "end_session" -> endVoiceSession(c)
                 [] p.kind = "ping" -> pong(c)
                 [] OTHER -> UNCHANGED <<handlers, wsVars, storage, aggVars, dedupVars, sessionsOf, streamVars>>

disconnectedAny(S) == S

\* the clients of S that handleDisconnection finds in the registry
disconnected(S) == S \cap clients

\* handleDisconnection for every client of S: end its bound session (the
\* session_ended event meets the socket in readyState[c]), delete it from
\* clients, decrement connectionCount
handleDisconnection(S, readyState) ==
    LET gone == disconnected(S)
        bound == {c \in gone : sessionId[c] # 0}
    IN
    /\ storage' = endedSessions(storage, {sessionId[c] : c \in bound}, now)
    /\ control' = [c \in ClientIds |->
                      IF c \in bound
                      THEN sendControl(control, c, readyState[c], "session_ended")[c]
                      ELSE control[c]]
    /\ sessionId' = [c \in ClientIds |-> IF c \in bound THEN 0 ELSE sessionId[c]]
    /\ clients' = clients \ gone
    /\ connectionCount' = connectionCount - Cardinality(gone)

\* ws.on('close')
handleClose(c) ==
    /\ ws[c] \in {"open", "closing"}
    /\ ws' = [ws EXCEPT ![c] = "closed"]
    /\ handleDisconnection({c}, ws')
    /\ UNCHANGED <<handlers, streamVars, req, bg, events, aggVars, dedupVars, lifeVars>>

\* ws.on('error'): the socket is closing when the event is emitted
handleError(c) ==
    /\ ws[c] = "open"
    /\ ws' = [ws EXCEPT ![c] = "closing"]
    /\ handleDisconnection({c}, ws')
    /\ UNCHANGED <<handlers, streamVars, req, bg, events, aggVars, dedupVars, lifeVars>>

\* the setInterval callback of startHealthCheck
isStaleAtThreshold(c) == now - lastActivity[c] >= StaleThresholdMs

isStale(c) == now - lastActivity[c] > StaleThresholdMs

healthCheck ==
    /\ handleDisconnection({c \in clients : isStale(c)}, ws)
    /\ UNCHANGED <<handlers, streamVars, ws, req, bg, events, aggVars, dedupVars, lifeVars>>

\* time passes
TimePasses(d) ==
    /\ now + d <= MaxClockMs
    /\ now' = now + d
    /\ UNCHANGED <<handlers, streamVars, processingQueue, execs, callers, storage, wsVars, aggVars, lifeVars>>

\* the background runs a transcribed request starts: one by
\* processVoiceForRealtime (no callback, the session id it was called with),
\* one by handleAudioData (with the callback, client.sessionId as it is now)
launchedBackground(r, sidThen, sidNow) ==
    << [req |-> r, cb |-> FALSE, sid |-> sidThen, pc |-> "scoring",
        scoringFailed |-> FALSE, sentiment |-> "none"],
       [req |-> r, cb |-> TRUE, sid |-> sidNow, pc |-> "scoring",
        scoringFailed |-> FALSE, sentiment |-> "none"] >>

\* where handleAudioData stands once it has started the background run: it
\* does not await it, so it has returned
handlerAwaitsBackground == "awaitingBackground"

handlerAfterLaunch == "done"

\* the Whisper call of processVoiceForRealtime returns
transcribeDone(r, outcome) ==
    /\ r \in DOMAIN req
    /\ req[r].pc = "transcribing"
    /\ LET c == req[r].client IN
       IF outcome = "ok"
       THEN /\ req' = [req EXCEPT ![r].pc = handlerAfterLaunch]
            /\ events' = sendMessage(events, r, ws[c], "transcript_ready", "response")
            /\ bg' = bg \o launchedBackground(r, req[r].sid, sessionId[c])
       ELSE /\ req' = [req EXCEPT ![r].pc = "failed", ![r].fail = outcome]
            /\ events' = fastPathFailed(events, r, ws[c])
            /\ UNCHANGED bg
    /\ UNCHANGED <<handlers, streamVars, clients, connectionCount, ws, sessionId, storage, control,
                   aggVars, dedupVars, lifeVars>>

analyzeEmotionNoFallback(outcome) == "positive"

\* analyzeEmotion: the provider's record, or the neutral fallback of its catch
analyzeEmotion(outcome) == IF outcome = "scoringFail" THEN "neutral" ELSE "positive"

backgroundFailedSurfaced(log, r) ==
    [log EXCEPT ![r] = Append(@, [action |-> "error", info |-> "Background analysis failed",
                                  delivered |-> TRUE])]

\* what the catch of processBackgroundAnalysis sends
backgroundFailed(log, r) == log

\* Promise.all([analyzeEmotion, getConversationsBySession]) returns: store
\* the user conversation, call generateResponse
bgScored(b, outcome) ==
    /\ b \in DOMAIN bg
    /\ bg[b].pc = "scoring"
    /\ LET run == bg[b] IN
       IF outcome \in {"contextFail", "storeFail"}
       THEN /\ bg' = [bg EXCEPT ![b].pc = "failedContext"]
            /\ events' = backgroundFailed(events, run.req)
            /\ UNCHANGED storage
       ELSE /\ bg' = [bg EXCEPT ![b].pc = "generating",
                                ![b].scoringFailed = (outcome = "scoringFail"),
                                ![b].sentiment = analyzeEmotion(outcome)]
            /\ storage' = createConversation(storage, run.sid, "user", run.req)
            /\ UNCHANGED events
    /\ UNCHANGED <<handlers, streamVars, clients, connectionCount, ws, sessionId, req, control,
                   aggVars, dedupVars, lifeVars>>

backgroundCompletedResponseFirst(log, run, readyState) ==
    IF run.cb
    THEN [log EXCEPT ![run.req] =
             @ \o << [action |-> "ai_response_ready", info |-> "response",
                      delivered |-> TRUE],
                     [action |-> "emotion_analysis_complete", info |-> run.sentiment,
                      delivered |-> TRUE] >>]
    ELSE log

\* the events a completed background run sends through its callback
backgroundCompleted(log, run, readyState) ==
    IF run.cb
    THEN sendMessage(sendMessage(log, run.req, readyState,
                                 "emotion_analysis_complete", run.sentiment),
                     run.req, readyState, "ai_response_ready", "response")
    ELSE log

backgroundPersistedIfOpen(st, run, b, readyState) ==
    IF readyState = "open"
    THEN LET st1 == createConversation(st, run.sid, "ai", run.req)
             conversation == getConversationsBySession(st1, run.sid)
             latestConversation == conversation[Len(conversation)]
         IN createEmotionAnalysis(st1, latestConversation.id, run.sentiment, run.req, b)
    ELSE st

\* what run b has stored when it completes, the socket of its connection
\* being in readyState: the AI conversation, then the emotion analysis
\* against the session's latest conversation
backgroundPersisted(st, run, b, readyState) ==
    LET st1 == createConversation(st, run.sid, "ai", run.req)
        conversation == getConversationsBySession(st1, run.sid)
        latestConversation == conversation[Len(conversation)]
    IN createEmotionAnalysis(st1, latestConversation.id, run.sentiment, run.req, b)

\* generateResponse returns: store the AI conversation, store the emotion
\* analysis against the session's latest conversation, call the callback
bgGenerated(b, outcome) ==
    /\ b \in DOMAIN bg
    /\ bg[b].pc = "generating"
    /\ LET run == bg[b]
           st1 == createConversation(storage, run.sid, "ai", run.req)
           st2 == backgroundPersisted(storage, run, b, ws[req[run.req].client])
       IN
       CASE outcome = "generationFail" ->
              /\ bg' = [bg EXCEPT ![b].pc = "failedGeneration"]
              /\ events' = backgroundFailed(events, run.req)
              /\ UNCHANGED storage
         [] outcome = "storeFail" ->
              /\ bg' = [bg EXCEPT ![b].pc = "failedStore"]
              /\ events' = backgroundFailed(events, run.req)
              /\ storage' = st1
         [] OTHER ->
              /\ bg' = [bg EXCEPT ![b].pc = "done"]
              /\ storage' = st2
              /\ events' = backgroundCompleted(events, run, ws[req[run.req].client])
    /\ UNCHANGED <<handlers, streamVars, clients, connectionCount, ws, sessionId, req, control,
                   aggVars, dedupVars, lifeVars>>

\* ----------------------------------------------------------- VoiceProcessor
\* `${sessionId}-${Date.now()}`
messageId(sid, t) == <<sid, t>>

queueHasNever(queue, key) == FALSE

\* processingQueue.has(messageId)
queueHas(queue, key) == \E q \in queue : q.key = key

queueGet(queue, key) == (CHOOSE q \in queue : q.key = key).exec

settleCallersNever(cs, e, status) == cs

\* the promise of execution e settles: every caller awaiting it resumes with
\* its outcome, and the finally of the caller that started it deletes the key
settleCallers(cs, e, status) ==
    [i \in DOMAIN cs |-> IF cs[i].exec = e /\ cs[i].pc = "waiting"
                         THEN [cs[i] EXCEPT !.pc = status]
                         ELSE cs[i]]

settleQueueKeeps(queue, key) == queue

\* processingQueue.delete(messageId)
settleQueue(queue, key) == {q \in queue : q.key # key}

\* processingQueue.set(messageId, processingPromise)
queueSet(queue, key, e) == settleQueue(queue, key) \cup {[key |-> key, exec |-> e]}

\* processVoiceMessage up to its await: return the registered promise of the
\* same messageId, or start _processVoiceInternal (which calls transcribeAudio
\* at once) and register it
processVoiceMessage(sid, size) ==
    /\ Len(callers) < MaxSubmits
    /\ LET key == messageId(sid, now)
           e == Len(execs) + 1
           running == {x \in DOMAIN execs :
                         /\ execs[x].key = key
                         /\ execs[x].pc \notin {"resolved", "rejected"}}
           seen == IF running = {} THEN 0 ELSE CHOOSE x \in running : TRUE
           concurrent == {x \in DOMAIN execs :
                            /\ execs[x].sid = sid
                            /\ execs[x].pc \notin {"resolved", "rejected"}}
       IN
       IF queueHas(processingQueue, key)
       THEN /\ callers' = Append(callers, [key |-> key,
                                           exec |-> queueGet(processingQueue, key),
                                           owner |-> FALSE, pc |-> "waiting",
                                           inFlight |-> seen,
                                           concurrent |-> concurrent])
            /\ UNCHANGED <<execs, processingQueue>>
       ELSE IF size < MinWhisperBytes
       THEN /\ execs' = Append(execs, [key |-> key, sid |-> sid, pc |-> "rejected",
                                       whisperCalls |-> 0, sentiment |-> "none",
                                       aiPending |-> FALSE, aiAudio |-> "none"])
            /\ callers' = Append(callers, [key |-> key, exec |-> e,
                                           owner |-> TRUE, pc |-> "rejected",
                                           inFlight |-> seen,
                                           concurrent |-> concurrent])
            /\ UNCHANGED processingQueue
       ELSE /\ execs' = Append(execs, [key |-> key, sid |-> sid, pc |-> "transcribing",
                                       whisperCalls |-> 1, sentiment |-> "none",
                                       aiPending |-> FALSE, aiAudio |-> "none"])
            /\ callers' = Append(callers, [key |-> key, exec |-> e,
                                           owner |-> TRUE, pc |-> "waiting",
                                           inFlight |-> seen,
                                           concurrent |-> concurrent])
            /\ processingQueue' = queueSet(processingQueue, key, e)
    /\ UNCHANGED <<handlers, streamVars, now, storage, wsVars, aggVars, lifeVars>>

\* _processVoiceInternal: transcribeAudio returns
execTranscribed(e, outcome) ==
    /\ e \in DOMAIN execs
    /\ execs[e].pc = "transcribing"
    /\ IF outcome = "ok"
       THEN /\ execs' = [execs EXCEPT ![e].pc = "scoring"]
            /\ UNCHANGED <<callers, processingQueue>>
       ELSE /\ execs' = [execs EXCEPT ![e].pc = "rejected"]
            /\ callers' = settleCallers(callers, e, "rejected")
            /\ processingQueue' = settleQueue(processingQueue, execs[e].key)
    /\ UNCHANGED <<handlers, streamVars, now, storage, wsVars, aggVars, lifeVars>>

\* analyzeEmotion returns: store the user conversation and the emotion
\* analysis of it, call generateResponse
execScored(e, outcome) ==
    /\ e \in DOMAIN execs
    /\ execs[e].pc = "scoring"
    /\ execs' = [execs EXCEPT ![e].pc = "generating",
                              ![e].sentiment = analyzeEmotion(outcome)]
    /\ storage' = createEmotionAnalysis(
                      createConversation(storage, execs[e].sid, "user", e),
                      storage.currentId, analyzeEmotion(outcome), e, 0)
    /\ UNCHANGED <<handlers, streamVars, callers, processingQueue, now, wsVars, aggVars, lifeVars>>

\* generateResponse returns: call generateSpeech
execGenerated(e, outcome) ==
    /\ e \in DOMAIN execs
    /\ execs[e].pc = "generating"
    /\ IF outcome = "ok"
       THEN /\ execs' = [execs EXCEPT ![e].pc = "speaking"]
            /\ UNCHANGED <<callers, processingQueue>>
       ELSE /\ execs' = [execs EXCEPT ![e].pc = "rejected"]
            /\ callers' = settleCallers(callers, e, "rejected")
            /\ processingQueue' = settleQueue(processingQueue, execs[e].key)
    /\ UNCHANGED <<handlers, streamVars, now, storage, wsVars, aggVars, lifeVars>>

afterSpeechFatal(outcome) == IF outcome = "speechFail" THEN "rejected" ELSE "resolved"

\* the try / catch around generateSpeech: a failure is logged and the
\* function goes on to its return
afterSpeech(outcome) == "resolved"

\* generateSpeech returns or fails: queue the store of the AI conversation
\* and resolve with the result
execSpoken(e, outcome) ==
    /\ e \in DOMAIN execs
    /\ execs[e].pc = "speaking"
    /\ execs' = [execs EXCEPT ![e].pc = afterSpeech(outcome),
                              ![e].aiPending = (afterSpeech(outcome) = "resolved"),
                              ![e].aiAudio = IF outcome = "ok" THEN "generated"
                                             ELSE "undefined"]
    /\ callers' = settleCallers(callers, e, afterSpeech(outcome))
    /\ processingQueue' = settleQueue(processingQueue, execs[e].key)
    /\ UNCHANGED <<handlers, streamVars, now, storage, wsVars, aggVars, lifeVars>>

\* the setImmediate callback of _processVoiceInternal
storeAiConversation(e) ==
    /\ e \in DOMAIN execs
    /\ execs[e].aiPending
    /\ execs' = [execs EXCEPT ![e].aiPending = FALSE]
    /\ storage' = createConversation(storage, execs[e].sid, "ai", e)
    /\ UNCHANGED <<handlers, streamVars, callers, processingQueue, now, wsVars, aggVars, lifeVars>>

\* the time between two submissions passes
Tick ==
    /\ now < MaxTime * ArrivalGapMs
    /\ now' = now + ArrivalGapMs
    /\ UNCHANGED <<handlers, streamVars, processingQueue, execs, callers, storage, wsVars, aggVars, lifeVars>>

\* -------------------------------------------------- StreamingVoiceProcessor
StreamSizes == {6000, 30000}

\* processAccumulatedAudio up to its first suspension (the Whisper call)
StreamStage(sizes, chunks) ==
    IF chunks = <<>> THEN "empty"
    ELSE IF SumSizes(sizes, chunks) < MinStreamBytes THEN "small"
    ELSE "transcribing"

\* the promise of a processAccumulatedAudio call that stands at stage: it
\* has returned unless it awaits Whisper
awaited(stage) == IF stage = "transcribing" THEN "pending" ELSE "resolved"

\* whether processAudioChunk processes at once
processesNow(total, isComplete) == total > HighWaterBytes \/ isComplete

\* processAudioChunk: push the chunk, clear the timeout processingTimeout
\* holds, then either process at once or set a new timeout
processAudioChunk(c, size, isComplete) ==
    /\ Len(streamSize) < MaxStreamFrags
    /\ LET f == Len(streamSize) + 1
           chunks == Append(streamChunks[c], f)
           sizes == Append(streamSize, size)
           live == streamTimeout[c].live \ {streamTimeout[c].handle}
       IN
       /\ streamSize' = sizes
       /\ streamChunks' = [streamChunks EXCEPT ![c] = chunks]
       /\ IF processesNow(SumSizes(sizes, chunks), isComplete)
          THEN /\ streamTimeout' = [streamTimeout EXCEPT ![c].live = live]
               /\ streamFlushes' = Append(streamFlushes,
                      [client |-> c, segment |-> chunks, isComplete |-> isComplete,
                       trigger |-> IF isComplete THEN "complete" ELSE "highWater",
                       pc |-> StreamStage(sizes, chunks)])
               /\ streamCalls' = Append(streamCalls,
                      [client |-> c, flush |-> Len(streamFlushes) + 1,
                       pc |-> awaited(StreamStage(sizes, chunks))])
          ELSE /\ streamTimeout' = [streamTimeout EXCEPT ![c] =
                                        [live |-> live \cup {f}, handle |-> f]]
               /\ streamCalls' = Append(streamCalls,
                      [client |-> c, flush |-> 0, pc |-> "pending"])
               /\ UNCHANGED streamFlushes
    /\ UNCHANGED <<handlers, gen, storage, wsVars, aggVars, dedupVars, lifeVars>>

\* the 500 ms timeout t of client c fires: processAccumulatedAudio(.., true)
streamTimerFire(c, t) ==
    /\ t \in streamTimeout[c].live
    /\ streamTimeout' = [streamTimeout EXCEPT ![c].live = @ \ {t}]
    /\ streamFlushes' = Append(streamFlushes,
           [client |-> c, segment |-> streamChunks[c], isComplete |-> TRUE,
            trigger |-> "timer", pc |-> StreamStage(streamSize, streamChunks[c])])
    /\ streamCalls' = [streamCalls EXCEPT ![t] =
           [@ EXCEPT !.flush = Len(streamFlushes) + 1,
                     !.pc = awaited(StreamStage(streamSize, streamChunks[c]))]]
    /\ UNCHANGED <<handlers, streamSize, streamChunks, gen, storage, wsVars, aggVars, dedupVars,
                   lifeVars>>

\* what processAccumulatedAudio leaves of the client's buffer once Whisper
\* has answered
streamCleared(chunks, c, isComplete) ==
    IF isComplete THEN [chunks EXCEPT ![c] = <<>>] ELSE chunks

\* the Whisper call of processAccumulatedAudio returns or throws: either way
\* processAccumulatedAudio returns a value, which resolves the promise of the
\* processAudioChunk call that waits for it
streamFlushDone(i, outcome) ==
    /\ i \in DOMAIN streamFlushes
    /\ streamFlushes[i].pc = "transcribing"
    /\ streamCalls' = [k \in DOMAIN streamCalls |->
                          IF streamCalls[k].flush = i
                          THEN [streamCalls[k] EXCEPT !.pc = "resolved"]
                          ELSE streamCalls[k]]
    /\ LET fl == streamFlushes[i] IN
       IF outcome = "whisperFail"
       THEN /\ streamFlushes' = [streamFlushes EXCEPT ![i].pc = "failed"]
            /\ UNCHANGED <<streamChunks, streamTimeout>>
       ELSE /\ streamFlushes' = [streamFlushes EXCEPT ![i].pc = "done"]
            /\ streamChunks' = streamCleared(streamChunks, fl.client, fl.isComplete)
            /\ streamTimeout' = IF fl.isComplete
                                THEN [streamTimeout EXCEPT ![fl.client].handle = 0]
                                ELSE streamTimeout
    /\ UNCHANGED <<handlers, streamSize, gen, storage, wsVars, aggVars, dedupVars, lifeVars>>

\* clearClient: delete the client's chunks, clear and delete its timeout
clearClient(c) ==
    /\ streamChunks[c] # <<>> \/ streamTimeout[c].handle # 0
    /\ streamChunks' = [streamChunks EXCEPT ![c] = <<>>]
    /\ streamTimeout' = [streamTimeout EXCEPT ![c] =
                             [live |-> @.live \ {@.handle}, handle |-> 0]]
    /\ UNCHANGED <<handlers, streamSize, streamFlushes, streamCalls, gen, storage, wsVars,
                   aggVars, dedupVars, lifeVars>>

\* ------------------------------------- OpenAIService.generateStreamingResponse
\* what a chunk of the provider's stream carries in choices[0].delta.content:
\* nothing (<<>>) or a piece of text, written as its sequence of characters
ChunkContents == {<<>>, <<"a">>, <<"b">>, <<"a", "b">>}

\* "I'm sorry, I couldn't generate a response."
FallbackContent == <<"sorry">>

\* fullContent || FallbackContent
responseContent(fullContent) ==
    IF fullContent = <<>> THEN FallbackContent ELSE fullContent

\* _processVoiceInternalWithStreaming calls generateStreamingResponse, which
\* awaits the stream
generateStreamingResponse ==
    /\ gen.pc = "idle"
    /\ gen' = [gen EXCEPT !.pc = "streaming"]
    /\ UNCHANGED <<handlers, streamCalls, streamSize, streamChunks, streamTimeout, streamFlushes,
                   storage, wsVars, aggVars, dedupVars, lifeVars>>

\* one turn of the for await loop: a chunk with content is appended to
\* fullContent and given to onToken, a chunk without is skipped
streamChunk(content) ==
    /\ gen.pc = "streaming"
    /\ Len(gen.emitted) < MaxChunks
    /\ gen' = IF content = <<>>
              THEN [gen EXCEPT !.emitted = Append(@, content)]
              ELSE [gen EXCEPT !.emitted = Append(@, content),
                               !.fullContent = @ \o content,
                               !.tokens = Append(@, content)]
    /\ UNCHANGED <<handlers, streamCalls, streamSize, streamChunks, streamTimeout, streamFlushes,
                   storage, wsVars, aggVars, dedupVars, lifeVars>>

\* the stream ends: generateStreamingResponse returns its content, and
\* _processVoiceInternalWithStreaming queues the store and returns it
streamEnd ==
    /\ gen.pc = "streaming"
    /\ gen' = [gen EXCEPT !.pc = "returned",
                          !.returned = responseContent(gen.fullContent)]
    /\ UNCHANGED <<handlers, streamCalls, streamSize, streamChunks, streamTimeout, streamFlushes,
                   storage, wsVars, aggVars, dedupVars, lifeVars>>

\* the stream throws: generateStreamingResponse rethrows, nothing is stored
streamFail ==
    /\ gen.pc = "streaming"
    /\ gen' = [gen EXCEPT !.pc = "failed"]
    /\ UNCHANGED <<handlers, streamCalls, streamSize, streamChunks, streamTimeout, streamFlushes,
                   storage, wsVars, aggVars, dedupVars, lifeVars>>

\* the setImmediate callback of _processVoiceInternalWithStreaming stores
\* the AI conversation with content aiResponse.content
storeStreamed ==
    /\ gen.pc = "returned"
    /\ gen' = [gen EXCEPT !.pc = "stored", !.persisted = gen.returned]
    /\ UNCHANGED <<handlers, streamCalls, streamSize, streamChunks, streamTimeout, streamFlushes,
                   storage, wsVars, aggVars, dedupVars, lifeVars>>

\* the connection handlers and the continuations of handleAudioData; the timers
\* that handleAudioData arms run in SpecAgg
Next ==
    \/ \E c \in ClientIds : handleConnection(c)
    \/ \E c \in ClientIds :
          /\ Len(storage.voiceSessions) < MaxSessions
          /\ startVoiceSession(c)
          /\ UNCHANGED <<lastActivity, routed>>
    \/ \E c \in ClientIds, size \in AudioSizes :
          /\ Len(req) < MaxRequests
          /\ handleAudioData(c, size)
          /\ UNCHANGED <<lastActivity, routed>>
    \/ \E r \in 1..MaxRequests, o \in {"ok", "provider", "empty"} : transcribeDone(r, o)
    \/ \E b \in 1..(2 * MaxRequests),
          o \in {"ok", "scoringFail", "contextFail", "storeFail"} : bgScored(b, o)
    \/ \E b \in 1..(2 * MaxRequests),
          o \in {"ok", "generationFail", "storeFail"} : bgGenerated(b, o)

Spec == Init /\ [][Next]_vars

\* the aggregator on its own: processAudioChunkUltraFast called with any
\* chunk, the timers and the flushes they start
NextAgg ==
    \/ \E c \in ClientIds, size \in AudioSizes : processAudioChunkUltraFast(c, size, 1)
    \/ \E c \in ClientIds : TimerFire(c)
    \/ \E i \in 1..MaxFrags, o \in {"ok", "whisperFail", "storeFail"} : FlushDone(i, o)

SpecAgg == Init /\ [][NextAgg]_vars

NextDedup ==
    \/ \E sid \in SessionKeys, size \in AudioSizes : processVoiceMessage(sid, size)
    \/ \E e \in 1..MaxSubmits, o \in {"ok", "provider", "empty"} : execTranscribed(e, o)
    \/ \E e \in 1..MaxSubmits, o \in {"ok", "scoringFail"} : execScored(e, o)
    \/ \E e \in 1..MaxSubmits, o \in {"ok", "generationFail"} : execGenerated(e, o)
    \/ \E e \in 1..MaxSubmits, o \in {"ok", "speechFail"} : execSpoken(e, o)
    \/ \E e \in 1..MaxSubmits : storeAiConversation(e)
    \/ Tick

SpecDedup == Init /\ [][NextDedup]_vars

\* StreamingVoiceProcessor on its own: processAudioChunk called with any
\* chunk, complete or not, the timers and the flushes
NextStream ==
    \/ \E c \in ClientIds, size \in StreamSizes, isComplete \in BOOLEAN :
           processAudioChunk(c, size, isComplete)
    \/ \E c \in ClientIds, t \in 1..MaxStreamFrags : streamTimerFire(c, t)
    \/ \E i \in 1..MaxStreamFrags, o \in {"ok", "whisperFail"} : streamFlushDone(i, o)

SpecStream == Init /\ [][NextStream]_vars

\* the same with clearClient, under fairness: a pending timeout fires and an
\* outstanding Whisper call returns or throws
NextStreamLive ==
    \/ NextStream
    \/ \E c \in ClientIds : clearClient(c)

TimersFireAndWhisperReturns ==
    /\ \A c \in ClientIds, t \in 1..MaxStreamFrags : WF_vars(streamTimerFire(c, t))
    /\ \A i \in 1..MaxStreamFrags :
           WF_vars(\E o \in {"ok", "whisperFail"} : streamFlushDone(i, o))

SpecStreamLive == Init /\ [][NextStreamLive]_vars /\ TimersFireAndWhisperReturns

\* one streamed generation, from the call to the stored AI conversation
NextTokens ==
    \/ generateStreamingResponse
    \/ \E content \in ChunkContents : streamChunk(content)
    \/ streamEnd
    \/ streamFail
    \/ storeStreamed

SpecTokens == Init /\ [][NextTokens]_vars

\* whether handleMessage(c, p) stays within the given numbers of inbound
\* messages, audio requests and sessions
Within(c, p, messages, requests, sessions) ==
    /\ routed.count < messages
    /\ (c \in clients /\ Route(p)[Len(Route(p))] = "audio") => Len(req) < requests
    /\ (c \in clients /\ Route(p) = <<"control">> /\ p.kind = "start_session") =>
           Len(storage.voiceSessions) < sessions

\* connections from accept to teardown: inbound messages, close, error, the
\* idle sweep and the clock
NextLife ==
    \/ \E c \in ClientIds : handleConnection(c)
    \/ \E c \in ClientIds, p \in Payloads :
          /\ Within(c, p, MaxLifeMessages, MaxLifeRequests, MaxLifeSessions)
          /\ handleMessage(c, p)
    \/ \E c \in ClientIds : handleClose(c)
    \/ \E c \in ClientIds : handleError(c)
    \/ healthCheck
    \/ \E d \in TimeSteps : TimePasses(d)

SpecLife == Init /\ [][NextLife]_vars

\* one audio request on a connection that is closed at any moment: the fast
\* path, the background runs, the debounce timer and its flush
TeardownPayloads == {p \in Payloads : p.kind \in {"binary", "start_session"}}

NextTeardown ==
    \/ \E c \in ClientIds : handleConnection(c)
    \/ \E c \in ClientIds, p \in TeardownPayloads :
          /\ Within(c, p, MaxLifeMessages, MaxLifeRequests, MaxSessions)
          /\ handleMessage(c, p)
    \/ \E c \in ClientIds : handleClose(c)
    \/ \E c \in ClientIds : handleError(c)
    \/ \E r \in 1..MaxLifeRequests, o \in {"ok", "provider"} : transcribeDone(r, o)
    \/ \E b \in 1..(2 * MaxLifeRequests), o \in {"ok", "contextFail"} : bgScored(b, o)
    \/ \E b \in 1..(2 * MaxLifeRequests), o \in {"ok", "generationFail"} : bgGenerated(b, o)
    \/ \E c \in ClientIds : TimerFire(c)
    \/ \E i \in 1..MaxFrags, o \in {"ok", "whisperFail"} : FlushDone(i, o)

SpecTeardown == Init /\ [][NextTeardown]_vars

\* ------------------------------------ session handlers with storage latency
\* The handlers of 'message' events are async functions that nobody
\* serializes: while startVoiceSession or endVoiceSession waits for a storage
\* call, the handler of the next event of the same connection runs.  Here the
\* storage calls take any time, so each handler is one action per await.

\* startVoiceSession up to `await storage.createVoiceSession`
startVoiceSessionCall(c) ==
    /\ ws[c] = "open"
    /\ c \in clients
    /\ storage' = createVoiceSession(storage)
    /\ handlers' = Append(handlers, [kind |-> "start", client |-> c, sid |-> storage.currentId,
                                     pc |-> "creating", updated |-> 0])
    /\ UNCHANGED <<streamVars, clients, connectionCount, ws, sessionId, req, bg, events,
                   control, aggVars, dedupVars, sessionsOf>>

\* startVoiceSession after the await: bind the session, send session_started
startVoiceSessionResume(h) ==
    /\ h \in DOMAIN handlers
    /\ handlers[h].kind = "start" /\ handlers[h].pc = "creating"
    /\ LET c == handlers[h].client IN
       /\ sessionId' = [sessionId EXCEPT ![c] = handlers[h].sid]
       /\ control' = sendControl(control, c, ws[c], "session_started")
       /\ sessionsOf' = [sessionsOf EXCEPT ![c] = @ \cup {handlers[h].sid}]
    /\ handlers' = [handlers EXCEPT ![h].pc = "done"]
    /\ UNCHANGED <<streamVars, clients, connectionCount, ws, storage, req, bg, events,
                   aggVars, dedupVars, now, lastActivity, routed>>

\* endVoiceSession up to `await storage.getVoiceSession`, called for each
\* client of S (all of them registered and bound to a session)
RECURSIVE endVoiceSessionCalls(_, _)
endVoiceSessionCalls(hs, S) ==
    IF S = {} THEN hs
    ELSE LET c == CHOOSE x \in S : \A y \in S : x <= y IN
         endVoiceSessionCalls(
             Append(hs, [kind |-> "end", client |-> c, sid |-> sessionId[c],
                         pc |-> "getting", updated |-> 0]),
             S \ {c})

\* the end_session control action
endVoiceSessionCall(c) ==
    /\ ws[c] = "open"
    /\ c \in clients
    /\ sessionId[c] # 0
    /\ handlers' = endVoiceSessionCalls(handlers, {c})
    /\ UNCHANGED <<streamVars, clients, connectionCount, ws, sessionId, storage, req, bg,
                   events, control, aggVars, dedupVars, sessionsOf>>

\* endVoiceSession after getVoiceSession: if the session was found, up to
\* `await storage.updateVoiceSession(client.sessionId, ..)`, else to the end
endVoiceSessionGot(h) ==
    /\ h \in DOMAIN handlers
    /\ handlers[h].kind = "end" /\ handlers[h].pc = "getting"
    /\ LET c == handlers[h].client IN
       IF getVoiceSession(storage, handlers[h].sid) # {}
       THEN /\ storage' = updateVoiceSession(storage, sessionId[c], now)
            /\ handlers' = [handlers EXCEPT ![h].pc = "updating",
                                            ![h].updated = sessionId[c]]
            /\ UNCHANGED <<control, sessionId>>
       ELSE /\ control' = sendControl(control, c, ws[c], "session_ended")
            /\ sessionId' = [sessionId EXCEPT ![c] = 0]
            /\ handlers' = [handlers EXCEPT ![h].pc = "done"]
            /\ UNCHANGED storage
    /\ UNCHANGED <<streamVars, clients, connectionCount, ws, req, bg, events,
                   aggVars, dedupVars, now, lifeVars>>

\* endVoiceSession after updateVoiceSession: send session_ended, unbind
endVoiceSessionResume(h) ==
    /\ h \in DOMAIN handlers
    /\ handlers[h].kind = "end" /\ handlers[h].pc = "updating"
    /\ LET c == handlers[h].client IN
       /\ control' = sendControl(control, c, ws[c], "session_ended")
       /\ sessionId' = [sessionId EXCEPT ![c] = 0]
    /\ handlers' = [handlers EXCEPT ![h].pc = "done"]
    /\ UNCHANGED <<streamVars, clients, connectionCount, ws, storage, req, bg, events,
                   aggVars, dedupVars, now, lifeVars>>

\* ws.on('message') up to the first await of the handler it reaches
handleMessageAsync(c, p) ==
    /\ ws[c] = "open"
    /\ lastActivity' = [lastActivity EXCEPT ![c] = now]
    /\ IF c \notin clients
       THEN /\ routed' = [count |-> routed.count + 1, client |-> c, payload |-> p,
                           to |-> <<>>]
            /\ UNCHANGED <<handlers, wsVars, storage, aggVars, dedupVars, sessionsOf, streamVars>>
       ELSE /\ routed' = [count |-> routed.count + 1, client |-> c, payload |-> p,
                           to |-> Route(p)]
            /\ CASE Route(p)[Len(Route(p))] = "audio" -> handleAudioData(c, p.size)
                 [] p.kind = "start_session" -> startVoiceSessionCall(c)
                 [] p.kind = "end_session" /\ sessionId[c] # 0 -> endVoiceSessionCall(c)
                 [] OTHER -> UNCHANGED <<handlers, wsVars, storage, aggVars, dedupVars, sessionsOf, streamVars>>

\* handleDisconnection for every client of S: call endVoiceSession for its
\* bound session without awaiting it, delete it from clients, decrement
\* connectionCount
handleDisconnectionAsync(S) ==
    LET gone == disconnected(S)
        bound == {c \in gone : sessionId[c] # 0}
    IN
    /\ handlers' = endVoiceSessionCalls(handlers, bound)
    /\ clients' = clients \ gone
    /\ connectionCount' = connectionCount - Cardinality(gone)

\* ws.on('close')
handleCloseAsync(c) ==
    /\ ws[c] \in {"open", "closing"}
    /\ ws' = [ws EXCEPT ![c] = "closed"]
    /\ handleDisconnectionAsync({c})
    /\ UNCHANGED <<streamVars, sessionId, storage, req, bg, events, control, aggVars,
                   dedupVars, lifeVars>>

\* the setInterval callback of startHealthCheck
healthCheckAsync ==
    /\ handleDisconnectionAsync({c \in clients : isStale(c)})
    /\ UNCHANGED <<streamVars, ws, sessionId, storage, req, bg, events, control, aggVars,
                   dedupVars, lifeVars>>

OrderPayloads == {p \in Payloads : p.kind \in {"start_session", "end_session"}}
                     \cup {[size |-> 1200, kind |-> "binary"]}

\* connections whose session handlers wait for the storage: inbound
\* messages, the handlers' continuations, close, the idle sweep and the clock
NextOrder ==
    \/ \E c \in ClientIds : handleConnection(c)
    \/ \E c \in ClientIds, p \in OrderPayloads :
          /\ Within(c, p, MaxOrderMessages, MaxLifeRequests, MaxSessions)
          /\ handleMessageAsync(c, p)
    \/ \E h \in 1..MaxOrderHandlers : startVoiceSessionResume(h)
    \/ \E h \in 1..MaxOrderHandlers : endVoiceSessionGot(h)
    \/ \E h \in 1..MaxOrderHandlers : endVoiceSessionResume(h)
    \/ \E c \in ClientIds : handleCloseAsync(c)
    \/ healthCheckAsync
    \/ \E d \in TimeSteps : TimePasses(d)

SpecOrder == Init /\ [][NextOrder]_vars

\* three small fragments sent in one debounce window, or one fragment large
\* enough to be transcribed, on a connection with a session
ScenarioPayloads ==
    {[size |-> 40, kind |-> "binary"], [size |-> 30, kind |-> "binary"],
     [size |-> 1200, kind |-> "binary"], [size |-> 50, kind |-> "start_session"]}

NextScenario ==
    \/ \E c \in ClientIds : handleConnection(c)
    \/ \E c \in ClientIds, p \in ScenarioPayloads :
          /\ Within(c, p, MaxScenarioMessages, MaxScenarioRequests, MaxSessions)
          /\ p.size >= MinWhisperBytes => req = <<>>
          /\ p.kind = "binary" => \A r \in DOMAIN req : req[r].size < MinWhisperBytes
          /\ handleMessage(c, p)
    \/ \E r \in 1..MaxScenarioRequests, o \in {"ok", "provider"} : transcribeDone(r, o)
    \/ \E b \in 1..(2 * MaxScenarioRequests), o \in {"ok", "contextFail"} : bgScored(b, o)
    \/ \E b \in 1..(2 * MaxScenarioRequests), o \in {"ok", "generationFail"} :
          bgGenerated(b, o)
    \/ \E c \in ClientIds : TimerFire(c)
    \/ \E i \in 1..MaxScenarioRequests, o \in {"ok", "whisperFail"} : FlushDone(i, o)

SpecScenario == Init /\ [][NextScenario]_vars

\* one audio request through handleAudioData and two submissions to
\* processVoiceMessage; every provider call that is outstanding returns or
\* fails in the end, and every queued setImmediate callback runs
NextLive ==
    \/ \E c \in ClientIds : handleConnection(c)
    \/ \E c \in ClientIds :
          /\ Len(storage.voiceSessions) < MaxSessions
          /\ startVoiceSession(c)
          /\ UNCHANGED <<lastActivity, routed>>
    \/ \E c \in ClientIds, size \in AudioSizes :
          /\ Len(req) < MaxLifeRequests
          /\ handleAudioData(c, size)
          /\ UNCHANGED <<lastActivity, routed>>
    \/ \E r \in 1..MaxLifeRequests, o \in {"ok", "provider"} : transcribeDone(r, o)
    \/ \E b \in 1..(2 * MaxLifeRequests), o \in {"ok", "contextFail"} : bgScored(b, o)
    \/ \E b \in 1..(2 * MaxLifeRequests), o \in {"ok", "generationFail"} : bgGenerated(b, o)
    \/ \E size \in AudioSizes :
          /\ Len(callers) < MaxLiveSubmits
          /\ processVoiceMessage(1, size)
    \/ \E e \in 1..MaxLiveSubmits, o \in {"ok", "provider"} : execTranscribed(e, o)
    \/ \E e \in 1..MaxLiveSubmits, o \in {"ok", "scoringFail"} : execScored(e, o)
    \/ \E e \in 1..MaxLiveSubmits, o \in {"ok", "generationFail"} : execGenerated(e, o)
    \/ \E e \in 1..MaxLiveSubmits, o \in {"ok", "speechFail"} : execSpoken(e, o)
    \/ \E e \in 1..MaxLiveSubmits : storeAiConversation(e)

ProviderCallsReturn ==
    /\ \A r \in 1..MaxLifeRequests :
           WF_vars(\E o \in {"ok", "provider"} : transcribeDone(r, o))
    /\ \A b \in 1..(2 * MaxLifeRequests) :
           /\ WF_vars(\E o \in {"ok", "contextFail"} : bgScored(b, o))
           /\ WF_vars(\E o \in {"ok", "generationFail"} : bgGenerated(b, o))
    /\ \A e \in 1..MaxLiveSubmits :
           /\ WF_vars(\E o \in {"ok", "provider"} : execTranscribed(e, o))
           /\ WF_vars(\E o \in {"ok", "scoringFail"} : execScored(e, o))
           /\ WF_vars(\E o \in {"ok", "generationFail"} : execGenerated(e, o))
           /\ WF_vars(\E o \in {"ok", "speechFail"} : execSpoken(e, o))
           /\ WF_vars(storeAiConversation(e))

SpecLive == Init /\ [][NextLive]_vars /\ ProviderCallsReturn

\* ================================================================= claims
PipelineOrder == <<"processing", "transcript_ready",
                   "emotion_analysis_complete", "ai_response_ready">>

Rank(a) == CHOOSE k \in DOMAIN PipelineOrder : PipelineOrder[k] = a

Sent(r, a) == \E i \in DOMAIN events[r] : events[r][i].action = a

BgTerminal(b) == bg[b].pc \in {"failedContext", "failedGeneration", "failedStore", "done"}

\* C1: the pipeline events sent for one audio request appear in the order
\* processing, transcript_ready, emotion_analysis_complete, ai_response_ready,
\* each at most once and none without the one before it; so transcript_ready
\* is sent strictly before emotion_analysis_complete and ai_response_ready
C1_EventOrder ==
    \A r \in DOMAIN events :
        LET ev == events[r]
            pipe == {i \in DOMAIN ev : ev[i].action \in Range(PipelineOrder)}
        IN
        /\ \A i, j \in pipe : i < j => Rank(ev[i].action) < Rank(ev[j].action)
        /\ \A j \in pipe :
               Rank(ev[j].action) > 1 =>
                   \E i \in pipe : i < j /\ Rank(ev[i].action) = Rank(ev[j].action) - 1

\* a request that has sent all four events while another request of the
\* same connection has sent some of its own
C1_Witness ==
    \E r, q \in DOMAIN events :
        /\ r # q
        /\ req[r].client = req[q].client
        /\ Sent(r, "ai_response_ready")
        /\ Sent(r, "emotion_analysis_complete")
        /\ Sent(q, "transcript_ready")

\* C2: per messageId at most one execution is registered and running; a
\* call made while one is running attaches to it and starts none; callers of
\* one execution get its outcome; an execution invokes Whisper at most once,
\* and exactly once when it is ever shared or still running
InFlight(e) == execs[e].pc \notin {"resolved", "rejected"}

C2_SingleExecutionPerKey ==
    /\ \A e, f \in DOMAIN execs :
           (InFlight(e) /\ InFlight(f) /\ execs[e].key = execs[f].key) => e = f
    /\ \A e \in DOMAIN execs :
           InFlight(e) <=> [key |-> execs[e].key, exec |-> e] \in processingQueue
    /\ \A q \in processingQueue : q.exec \in DOMAIN execs /\ execs[q.exec].key = q.key
    /\ \A i \in DOMAIN callers :
           LET c == callers[i] IN
           /\ c.inFlight # 0 => (c.exec = c.inFlight /\ ~c.owner)
           /\ execs[c.exec].key = c.key
           /\ c.pc = IF InFlight(c.exec) THEN "waiting" ELSE execs[c.exec].pc
           /\ ~c.owner => execs[c.exec].whisperCalls = 1
    /\ \A e \in DOMAIN execs :
           /\ execs[e].whisperCalls <= 1
           /\ Cardinality({i \in DOMAIN callers : callers[i].exec = e /\ callers[i].owner}) = 1

\* two callers of one messageId that both got the result of one execution
C2_Witness ==
    \E i, j \in DOMAIN callers :
        /\ i # j
        /\ callers[i].exec = callers[j].exec
        /\ callers[i].owner /\ ~callers[j].owner
        /\ callers[i].pc = "resolved" /\ callers[j].pc = "resolved"

\* C3: every burst of ingests (all those between two firings of the
\* client's timer) that reaches the byte floor is flushed when the timer
\* fires, and the flushed segment is exactly that burst in arrival order
Flushed(i) == flushes[i].pc \in {"rejected", "transcribing", "failed", "done"}

C3_OneFlushPerBurst ==
    \A i \in DOMAIN flushes :
        SumSizes(fragSize, flushes[i].burst) >= MinUltraFastBytes =>
            /\ Flushed(i)
            /\ flushes[i].segment = flushes[i].burst

\* C4: no fragment is part of two segments handed to Whisper
Handed(i) == flushes[i].pc \in {"transcribing", "failed", "done"}

C4_FlushedOnce ==
    \A i, j \in DOMAIN flushes :
        (i < j /\ Handed(i) /\ Handed(j)) =>
            Range(flushes[i].segment) \cap Range(flushes[j].segment) = {}

\* C5: a fragment that was ingested stays in its client's buffer until a
\* flush has taken it; the completion of an earlier flush never drops it
C5_NeverDiscarded ==
    \A f \in DOMAIN fragSize :
        \/ \E c \in ClientIds : f \in Range(audioChunks[c])
        \/ \E i \in DOMAIN flushes : Flushed(i) /\ f \in Range(flushes[i].segment)

C7_NoErrorAfterTranscript ==
    \A r \in DOMAIN events :
        \A i, j \in DOMAIN events[r] :
            (i < j /\ events[r][i].action = "transcript_ready") =>
                events[r][j].action # "error"

\* the background run that holds the callback failed in each of its ways
\* after the transcript was sent
C7_Witness ==
    \E a, b \in DOMAIN bg :
        /\ bg[a].cb /\ bg[a].pc = "failedGeneration"
        /\ bg[b].cb /\ bg[b].pc \in {"failedContext", "failedStore"}
        /\ Sent(bg[a].req, "transcript_ready")
        /\ Sent(bg[b].req, "transcript_ready")

C9_GenerationFailure ==
    \A b \in DOMAIN bg :
        bg[b].pc = "failedGeneration" =>
            /\ ~Sent(bg[b].req, "ai_response_ready")
            /\ \A k \in DOMAIN storage.conversations :
                   storage.conversations[k].req = bg[b].req =>
                       storage.conversations[k].type # "ai"
            /\ \E k \in DOMAIN storage.conversations :
                   /\ storage.conversations[k].req = bg[b].req
                   /\ storage.conversations[k].type = "user"

\* C10: handleAudioData has returned as soon as transcript_ready is sent, with
\* the background runs started and whatever their progress
C10_HandlerDoesNotAwait ==
    \A r \in DOMAIN req :
        Sent(r, "transcript_ready") =>
            /\ req[r].pc = "done"
            /\ \E b \in DOMAIN bg : bg[b].req = r /\ bg[b].cb

\* the handler of one request has returned, its background run is still
\* scoring or generating, and a later audio message of the same connection
\* has been accepted and transcribed
C10_Witness ==
    \E r, q \in DOMAIN req :
        /\ r < q
        /\ req[r].client = req[q].client
        /\ req[r].pc = "done"
        /\ \E b \in DOMAIN bg : bg[b].req = r /\ bg[b].cb /\ bg[b].pc \in {"scoring", "generating"}
        /\ Sent(q, "transcript_ready")

\* C11: whenever scoring or generation of a background run of a request is
\* outstanding, the user Turn of that request is in the store
C11_UserTurnBeforeBackground ==
    \A b \in DOMAIN bg :
        bg[b].pc \in {"scoring", "generating"} =>
            \E k \in DOMAIN storage.conversations :
                /\ storage.conversations[k].req = bg[b].req
                /\ storage.conversations[k].type = "user"

\* C12: a flush whose segment is below the byte floor stops there: Whisper is
\* not called for it, and every stored Turn and every transcription event is
\* that of a flush whose segment was handed to Whisper
C12_BelowFloorNoRequest ==
    /\ \A i \in DOMAIN flushes :
           SumSizes(fragSize, flushes[i].segment) < MinUltraFastBytes =>
               flushes[i].pc \in {"empty", "small"}
    /\ Len(storage.conversations) =
           Cardinality({i \in DOMAIN flushes : flushes[i].pc = "done"})
    /\ \A c \in ClientIds :
           Len(control[c]) <=
               Cardinality({i \in DOMAIN flushes :
                               /\ flushes[i].client = c
                               /\ flushes[i].pc \in {"failed", "done"}
                               /\ SumSizes(fragSize, flushes[i].segment) >= MinWhisperBytes})

\* a flush below the floor was skipped and a later flush of the same
\* connection was transcribed and stored
C12_Witness ==
    \E i, j \in DOMAIN flushes :
        /\ i < j
        /\ flushes[i].pc = "small" /\ flushes[i].segment # <<>>
        /\ flushes[j].pc = "done"

\* C13: once a connection is unregistered, no flush of fragments buffered
\* for it fires any more
C13_NoFlushAfterTeardown ==
    [][\A c \in ClientIds :
          (ws[c] # "none" /\ c \notin clients) =>
              \A i \in DOMAIN flushes' :
                  (i \notin DOMAIN flushes /\ flushes'[i].client = c) =>
                      flushes'[i].segment = <<>>]_vars

\* C14: a background run that completes has stored the assistant Turn and
\* its EmotionRecord whatever the state of the connection, and the events of
\* its callback reach the socket only if it is open at that moment
C14_BackgroundSurvivesClose ==
    [][\A b \in DOMAIN bg :
          (bg[b].pc = "generating" /\ bg'[b].pc = "done") =>
              LET r == bg[b].req
                  n == Len(events[r])
              IN
              /\ \E k \in DOMAIN storage'.conversations :
                     /\ k \notin DOMAIN storage.conversations
                     /\ storage'.conversations[k].req = r
                     /\ storage'.conversations[k].type = "ai"
              /\ \E k \in DOMAIN storage'.emotionAnalyses :
                     /\ k \notin DOMAIN storage.emotionAnalyses
                     /\ storage'.emotionAnalyses[k].run = b
              /\ bg[b].cb =>
                     /\ Len(events'[r]) = n + 2
                     /\ events'[r][n + 1].action = "emotion_analysis_complete"
                     /\ events'[r][n + 2].action = "ai_response_ready"
                     /\ \A i \in {n + 1, n + 2} :
                            events'[r][i].delivered <=> ws[req[r].client] = "open"]_vars

\* the connection was closed after transcript_ready had been delivered, and
\* the run with the callback completed: both Turns and the EmotionRecord are
\* stored and its two events were dropped
C14_Witness ==
    \E b \in DOMAIN bg :
        LET r == bg[b].req IN
        /\ bg[b].cb /\ bg[b].pc = "done"
        /\ ws[req[r].client] = "closed"
        /\ \E i \in DOMAIN events[r] :
               events[r][i].action = "transcript_ready" /\ events[r][i].delivered
        /\ \E i \in DOMAIN events[r] :
               events[r][i].action = "ai_response_ready" /\ ~events[r][i].delivered
        /\ \E k \in DOMAIN storage.emotionAnalyses : storage.emotionAnalyses[k].run = b

\* C15: an event reaches the socket exactly when the socket is open at the
\* moment it is emitted; what was logged for an earlier event never changes
\* afterwards, so a dropped event is not delivered later
C15_DeliveredOnlyIfOpen ==
    [][/\ \A c \in ClientIds :
             /\ Len(control'[c]) >= Len(control[c])
             /\ \A i \in DOMAIN control'[c] :
                    IF i <= Len(control[c])
                    THEN control'[c][i] = control[c][i]
                    ELSE control'[c][i].delivered <=> ws'[c] = "open"
       /\ \A r \in DOMAIN events' :
             \A i \in DOMAIN events'[r] :
                 IF r \in DOMAIN events /\ i <= Len(events[r])
                 THEN events'[r][i] = events[r][i]
                 ELSE events'[r][i].delivered <=> ws'[req'[r].client] = "open"]_vars

\* a request whose processing event was delivered and whose transcript_ready
\* was emitted after the socket had closed, beside a dropped session_ended
C15_Witness ==
    \E r \in DOMAIN events :
        /\ \E i \in DOMAIN events[r] :
               events[r][i].action = "processing" /\ events[r][i].delivered
        /\ \E i \in DOMAIN events[r] :
               events[r][i].action = "transcript_ready" /\ ~events[r][i].delivered
        /\ \E i \in DOMAIN control[req[r].client] :
               /\ control[req[r].client][i].action = "session_ended"
               /\ ~control[req[r].client][i].delivered

\* C16: a connection whose socket closed or failed is no longer registered,
\* and the step that unregisters a connection (close, error or the idle sweep)
\* leaves the session it was bound to ended: inactive, with its end time set
SessionEnded(st, sid, t) ==
    \E i \in DOMAIN st.voiceSessions :
        /\ st.voiceSessions[i].id = sid
        /\ ~st.voiceSessions[i].isActive
        /\ st.voiceSessions[i].endTime = t

C16_TeardownEndsSession ==
    [][/\ \A c \in ClientIds : ws'[c] \in {"closing", "closed"} => c \notin clients'
       /\ \A c \in clients :
             c \notin clients' =>
                 /\ sessionId'[c] = 0
                 /\ sessionId[c] # 0 => SessionEnded(storage', sessionId[c], now)]_vars

\* a connection the idle sweep has unregistered, its socket still open and
\* its session ended at the time of the sweep
C16_Witness ==
    \E c \in ClientIds :
        /\ ws[c] = "open" /\ c \notin clients
        /\ \E sid \in sessionsOf[c] : SessionEnded(storage, sid, 2 * StaleThresholdMs)

\* C17: of the sessions created through one connection at most one is active
ActiveSessions(c) ==
    {i \in DOMAIN storage.voiceSessions :
        /\ storage.voiceSessions[i].id \in sessionsOf[c]
        /\ storage.voiceSessions[i].isActive}

C17_OneActiveSession == \A c \in ClientIds : Cardinality(ActiveSessions(c)) <= 1

\* C20: every inbound payload is given to exactly one handler: the audio
\* handler if it is over 100 bytes or does not parse, the control handler
\* otherwise
C20_RoutedToOneHandler ==
    routed.count > 0 =>
        routed.to = IF routed.payload.size > ControlMaxBytes \/ routed.payload.kind = "binary"
                    THEN <<"audio">>
                    ELSE <<"control">>

\* C18: when no execution is in flight the processingQueue is empty; a step
\* removes an entry only for the execution that settles in it, whatever its
\* outcome, and removes the entry of every execution that settles; a
\* submission whose messageId has no execution in flight starts a new one
C18_RegistrationRemovedOnSettle ==
    [][/\ (\A e \in DOMAIN execs' : execs'[e].pc \in {"resolved", "rejected"})
             => processingQueue' = {}
       /\ \A q \in processingQueue \ processingQueue' :
             /\ execs[q.exec].pc \notin {"resolved", "rejected"}
             /\ execs'[q.exec].pc \in {"resolved", "rejected"}
       /\ \A e \in DOMAIN execs :
             (InFlight(e) /\ execs'[e].pc \in {"resolved", "rejected"}) =>
                 processingQueue' = processingQueue \ {[key |-> execs[e].key, exec |-> e]}
       /\ Len(callers') > Len(callers) =>
             LET c == callers'[Len(callers')] IN
             (\A x \in DOMAIN execs : execs[x].key = c.key => ~InFlight(x)) =>
                 (c.owner /\ c.exec \notin DOMAIN execs /\ c.exec \in DOMAIN execs')]_vars

\* one messageId submitted again after its first execution had settled,
\* while an execution of another messageId stays registered
C18_Witness ==
    \E i, j \in DOMAIN callers :
        /\ i < j
        /\ callers[i].key = callers[j].key
        /\ callers[i].owner /\ callers[j].owner
        /\ callers[i].exec # callers[j].exec
        /\ execs[callers[i].exec].whisperCalls = 1
        /\ callers[i].pc \in {"resolved", "rejected"}
        /\ callers[j].pc = "waiting"
        /\ \E q \in processingQueue : q.key # callers[j].key

\* C19: a submission that arrives within 10 ms of one for the same session
\* whose transcription is still outstanding carries the same messageId and
\* attaches to that execution, so Whisper is called once for the two
C19_OneCallPerWindow ==
    \A j \in DOMAIN callers :
        \A x \in callers[j].concurrent :
            (/\ execs[x].whisperCalls = 1
             /\ callers[j].key[2] - execs[x].key[2] <= ArrivalGapMs) =>
                (callers[j].key = execs[x].key /\ callers[j].exec = x)

\* C23: every emotion analysis stored by processBackgroundAnalysis refers to
\* the user conversation of the same request, and no user conversation has
\* more than one emotion analysis
C23_OneEmotionPerUserTurn ==
    /\ \A i \in DOMAIN storage.emotionAnalyses :
           LET a == storage.emotionAnalyses[i] IN
           a.run # 0 =>
               \E j \in DOMAIN storage.conversations :
                   /\ storage.conversations[j].id = a.conversationId
                   /\ storage.conversations[j].type = "user"
                   /\ storage.conversations[j].req = a.req
    /\ \A j \in DOMAIN storage.conversations :
           storage.conversations[j].type = "user" =>
               Cardinality({i \in DOMAIN storage.emotionAnalyses :
                               storage.emotionAnalyses[i].conversationId =
                                   storage.conversations[j].id}) <= 1

\* C24: an audio payload below the size floor, received on a connection with
\* a bound session, causes no event to be sent for it
C24_SmallAudioNoEvent ==
    \A r \in DOMAIN req :
        (req[r].sid # 0 /\ req[r].size < MinWhisperBytes) => events[r] = <<>>

\* C26: a segment found below the byte floor when its timer fires is
\* discarded: its fragments are no longer in the client's buffer and are in
\* no segment handed to Whisper later
C26_SmallSegmentDiscarded ==
    \A i \in DOMAIN flushes :
        flushes[i].pc = "small" =>
            \A f \in Range(flushes[i].segment) :
                /\ f \notin Range(audioChunks[flushes[i].client])
                /\ \A j \in DOMAIN flushes :
                       (i < j /\ Handed(j)) => f \notin Range(flushes[j].segment)

\* C28: every segment handed to Whisper is a contiguous run of its client's
\* fragments in arrival order (fragments are numbered in arrival order)
FragsOf(c) ==
    {f \in DOMAIN fragSize :
        \/ f \in Range(burst[c])
        \/ \E i \in DOMAIN flushes :
               flushes[i].client = c /\ f \in Range(flushes[i].burst)}

Contiguous(c, segment) ==
    \A k \in 1..(Len(segment) - 1) :
        /\ segment[k] < segment[k + 1]
        /\ ~\E f \in FragsOf(c) : segment[k] < f /\ f < segment[k + 1]

C28_SegmentsContiguous ==
    /\ \A i \in DOMAIN flushes :
           /\ Range(flushes[i].segment) \subseteq FragsOf(flushes[i].client)
           /\ Contiguous(flushes[i].client, flushes[i].segment)
    /\ \A c \in ClientIds : Contiguous(c, audioChunks[c])

\* a segment of two fragments handed to Whisper after an earlier flush of
\* the same client had completed and cleared the buffer
C28_Witness ==
    \E i, j \in DOMAIN flushes :
        /\ i < j
        /\ flushes[i].client = flushes[j].client
        /\ flushes[i].pc = "done"
        /\ Handed(j)
        /\ Len(flushes[j].segment) >= 2
        /\ flushes[j].segment[1] > 1

\* C25: generateSpeech is called only once generateResponse has returned,
\* and whether it returns or fails the execution resolves, its callers
\* resume with the result, and the AI conversation is queued and then stored
AiStored(st, e) ==
    \E j \in DOMAIN st.conversations :
        /\ st.conversations[j].type = "ai"
        /\ st.conversations[j].req = e
        /\ st.conversations[j].sessionId = execs[e].sid

C25_SpeechNonFatal ==
    [][\A e \in DOMAIN execs' :
          /\ execs'[e].pc = "speaking" =>
                 (e \in DOMAIN execs /\ execs[e].pc \in {"generating", "speaking"})
          /\ (e \in DOMAIN execs /\ execs[e].pc = "speaking" /\ execs'[e].pc # "speaking") =>
                 /\ execs'[e].pc = "resolved"
                 /\ execs'[e].aiPending
                 /\ \A i \in DOMAIN callers' :
                        callers'[i].exec = e => callers'[i].pc = "resolved"
          /\ (execs'[e].pc = "resolved" /\ ~execs'[e].aiPending) => AiStored(storage', e)
          /\ execs'[e].aiAudio # "none" => execs'[e].pc = "resolved"]_vars

\* an execution whose generateSpeech failed: it resolved, two callers got
\* its result and its AI conversation is stored
C25_Witness ==
    \E e \in DOMAIN execs :
        /\ execs[e].aiAudio = "undefined"
        /\ execs[e].pc = "resolved"
        /\ ~execs[e].aiPending
        /\ AiStored(storage, e)
        /\ Cardinality({i \in DOMAIN callers :
                           callers[i].exec = e /\ callers[i].pc = "resolved"}) = 2

\* C29: every inbound message sets its connection's lastActivity to the
\* current time, and the sweep unregisters a connection only if its
\* lastActivity lies more than the idle threshold back
C29_ActiveNotSwept ==
    [][/\ routed'.count > routed.count => lastActivity'[routed'.client] = now
       /\ \A c \in clients :
             (c \notin clients' /\ ws[c] = "open" /\ ws'[c] = "open") =>
                 now - lastActivity[c] > StaleThresholdMs]_vars

\* a registered connection ten minutes after it connected, whose last
\* message (a ping) arrived exactly the idle threshold ago
C29_Witness ==
    \E c \in clients :
        /\ routed.client = c /\ routed.payload.kind = "ping"
        /\ lastActivity[c] > 0
        /\ now - lastActivity[c] = StaleThresholdMs

\* C21: the tokens given to onToken are the provider's content chunks in
\* emission order, and the text that is returned and stored is their
\* concatenation
RECURSIVE Concat(_)
Concat(tokens) == IF tokens = <<>> THEN <<>> ELSE Head(tokens) \o Concat(Tail(tokens))

C21_PersistedIsDelivered ==
    /\ gen.tokens = SelectSeq(gen.emitted, LAMBDA content : content # <<>>)
    /\ gen.pc \in {"returned", "stored"} => gen.returned = Concat(gen.tokens)
    /\ gen.pc = "stored" => gen.persisted = Concat(gen.tokens)

\* C27: a segment that processAudioChunk flushes because the buffer crossed
\* the high-water mark is swapped out: none of its fragments stays in the
\* client's buffer or is part of a later segment
C27_HighWaterSwapsOut ==
    \A i \in DOMAIN streamFlushes :
        streamFlushes[i].trigger = "highWater" =>
            /\ streamFlushes[i].pc # "small"
            /\ Range(streamFlushes[i].segment)
                   \cap Range(streamChunks[streamFlushes[i].client]) = {}
            /\ \A j \in DOMAIN streamFlushes :
                   (i < j /\ streamFlushes[j].client = streamFlushes[i].client) =>
                       Range(streamFlushes[i].segment)
                           \cap Range(streamFlushes[j].segment) = {}

\* C22: once fragments of 40, 40 and 30 bytes have been ingested in one
\* debounce window on a connection with a session and the timer has fired,
\* one segment of 110 bytes has been handed to Whisper, one transcript_ready
\* was sent, and then either emotion_analysis_complete followed by
\* ai_response_ready or an error, not both and not neither
EventCount(action) ==
    Cardinality({x \in (DOMAIN events) \X (1..8) :
                    /\ x[2] \in DOMAIN events[x[1]]
                    /\ events[x[1]][x[2]].action = action})

ScenarioDone ==
    /\ fragSize = <<40, 40, 30>>
    /\ \A r \in DOMAIN req : req[r].sid # 0
    /\ Len(flushes) = 1
    /\ \A c \in ClientIds : ~timer[c].armed

C22_DebounceScenario ==
    ScenarioDone =>
        /\ Handed(1) /\ SumSizes(fragSize, flushes[1].segment) = 110
        /\ EventCount("transcript_ready") = 1
        /\ EventCount("error") <= 1
        /\ EventCount("error") = 1 =>
               (EventCount("emotion_analysis_complete") = 0
                   /\ EventCount("ai_response_ready") = 0)

\* C30: every audio request leaves the transcribing stage, every background
\* run started for it completes or fails, and every execution of
\* processVoiceMessage settles, its callers resume and its messageId is
\* removed from the processingQueue
C30_RequestsTerminate ==
    /\ \A r \in 1..MaxLifeRequests :
           (r \in DOMAIN req) ~>
               (r \in DOMAIN req /\ req[r].pc \in {"nosession", "failed", "done"})
    /\ \A r \in 1..MaxLifeRequests :
           (r \in DOMAIN req /\ req[r].pc = "done") ~>
               (\A b \in DOMAIN bg : bg[b].req = r => BgTerminal(b))
    /\ \A e \in 1..MaxLiveSubmits :
           (e \in DOMAIN execs) ~>
               (/\ e \in DOMAIN execs
                /\ ~InFlight(e)
                /\ \A q \in processingQueue : q.exec # e
                /\ \A i \in DOMAIN callers :
                       callers[i].exec = e => callers[i].pc \in {"resolved", "rejected"})

\* a request whose fast path and both background runs have ended, beside an
\* execution that two callers shared and that has settled and left the map
C30_Witness ==
    /\ \E r \in DOMAIN req :
           /\ req[r].pc = "done"
           /\ \E b \in DOMAIN bg : bg[b].req = r
           /\ \A b \in DOMAIN bg : bg[b].req = r => BgTerminal(b)
    /\ \E e \in DOMAIN execs :
           /\ execs[e].whisperCalls = 1
           /\ ~InFlight(e)
           /\ processingQueue = {}
           /\ Cardinality({i \in DOMAIN callers : callers[i].exec = e}) = 2

\* C31: a connection whose socket is open is in the registry: the sweep
\* closes the socket of every connection it unregisters
C31_OpenImpliesRegistered ==
    \A c \in ClientIds : ws[c] = "open" => c \in clients

\* C33: for a transcribed audio request the background analysis is started
\* once, and one user conversation and one AI conversation are stored for it
C33_BackgroundLaunchedOnce ==
    \A r \in DOMAIN req :
        /\ Cardinality({b \in DOMAIN bg : bg[b].req = r}) <= 1
        /\ req[r].pc = "done" => Cardinality({b \in DOMAIN bg : bg[b].req = r}) = 1
        /\ \A type \in {"user", "ai"} :
               Cardinality({j \in DOMAIN storage.conversations :
                               /\ storage.conversations[j].req = r
                               /\ storage.conversations[j].type = type}) <= 1

\* C34: connectionCount is the number of registered clients and is never
\* negative
C34_CountMatchesRegistry ==
    /\ connectionCount = Cardinality(clients)
    /\ connectionCount >= 0

\* a connection that was swept while idle and whose socket closed later, and
\* with it the registry empty
C34_Witness ==
    \E c \in ClientIds :
        /\ ws[c] = "closed" /\ c \notin clients
        /\ \E sid \in sessionsOf[c] : SessionEnded(storage, sid, 2 * StaleThresholdMs)
        /\ \E i \in DOMAIN control[c] :
               control[c][i].action = "session_ended" /\ control[c][i].delivered
        /\ connectionCount = 0

\* C37: a payload of at most 100 bytes that parses as JSON starts no audio
\* request, sends no pipeline event and buffers no fragment
C37_JsonNeverAudio ==
    [][(/\ routed'.count > routed.count
        /\ routed'.payload.kind # "binary"
        /\ routed'.payload.size <= ControlMaxBytes) =>
           /\ UNCHANGED <<fragSize, audioChunks, timer>>
           /\ \A r \in DOMAIN req' \ DOMAIN req :
                  /\ req'[r].sid = 0
                  /\ \A i \in DOMAIN events'[r] : events'[r][i].action # "processing"]_vars

\* C32: no session record is ever removed, and after every step the
\* totalMessages of each session is the number of conversations stored for
\* it, whichever of the conversation writes and the session-end update comes
\* first
C32_CounterMatchesTurns ==
    [][/\ \A i \in DOMAIN storage.voiceSessions :
              /\ i \in DOMAIN storage'.voiceSessions
              /\ storage'.voiceSessions[i].id = storage.voiceSessions[i].id
       /\ \A i \in DOMAIN storage'.voiceSessions :
              storage'.voiceSessions[i].totalMessages =
                  Len(getConversationsBySession(storage', storage'.voiceSessions[i].id))]_vars

\* the connection closed while the transcription was running, so the session
\* was ended first and the conversations were stored afterwards
C32_Witness ==
    \E r \in DOMAIN req :
        /\ \E i \in DOMAIN events[r] :
               events[r][i].action = "transcript_ready" /\ ~events[r][i].delivered
        /\ \E i \in DOMAIN storage.voiceSessions :
               /\ storage.voiceSessions[i].id = req[r].sid
               /\ ~storage.voiceSessions[i].isActive
               /\ storage.voiceSessions[i].totalMessages >= 2

\* C36: every processAudioChunk call is eventually resolved, given that
\* pending timeouts fire and Whisper calls return
C36_CallsResolve ==
    \A k \in 1..MaxStreamFrags :
        (k \in DOMAIN streamCalls) ~>
            (k \in DOMAIN streamCalls /\ streamCalls[k].pc = "resolved")

\* C35: the end update of the store is applied at most once to each
\* session, and a connection is sent at most one session_ended event per
\* session it created
C35_EndedAtMostOnce ==
    /\ \A i \in DOMAIN storage.voiceSessions :
           Cardinality({h \in DOMAIN handlers :
                           /\ handlers[h].kind = "end"
                           /\ handlers[h].updated = storage.voiceSessions[i].id}) <= 1
    /\ \A c \in ClientIds :
           Cardinality({i \in DOMAIN control[c] : control[c][i].action = "session_ended"})
               <= Cardinality(sessionsOf[c])

\* C38: an audio message handled after the start_session of its connection,
\* with no end_session, close or eviction in between, is processed against
\* the session and not rejected for want of one
C38_AudioAfterStartAccepted ==
    [][\A r \in DOMAIN req' \ DOMAIN req :
          (/\ \E h \in DOMAIN handlers :
                  handlers[h].kind = "start" /\ handlers[h].client = req'[r].client
           /\ \A h \in DOMAIN handlers :
                  handlers[h].client = req'[r].client => handlers[h].kind = "start")
              => req'[r].pc # "nosession"]_vars

====
